---- MODULE Spec2Model ----
(***************************************************************************)
(* Moodverter tray controller (src-tauri/src/lib.rs): the three callbacks  *)
(* registered in run() -- on_menu_event, on_tray_icon_event and            *)
(* on_window_event -- together with the host window they command.          *)
(*                                                                         *)
(* The host dispatches one event at a time; a callback runs to completion  *)
(* before the next event, so each callback is one action.  Every window    *)
(* command returns a Result the callback discards (let _ = ...), so the    *)
(* host may apply a command or fail it, independently for each command.    *)
(***************************************************************************)
EXTENDS Integers, Sequences, FiniteSets, TLC

(***************************************************************************)
(* Numbers.                                                                *)
(*                                                                         *)
(* An i32 is an integer in I32Min..I32Max.  An f64 is modelled as a        *)
(* fixed-point number: [o |-> 0, w |-> whole, f |-> frac] stands for       *)
(* w + f/Scale with 0 <= f < Scale (w is the floor), and o = 1 / o = -1    *)
(* stand for a finite value of I32Max + 1 or more / below I32Min, which is *)
(* all the final `as i32` cast can tell about it.  The handler only adds   *)
(* non-negative sizes and positive constants after a value has left the    *)
(* range upwards, so an out-of-range value never comes back into range.    *)
(***************************************************************************)
I32Max == 2147483647
I32Min == (-2147483647) - 1

\* Denominator of the fractional part of a logical (f64) coordinate.
Scale == 2

\* Number of ordinary whole values tried for each tray coordinate.
MaxK == 1

F64(whole, frac) == [o |-> 0, w |-> whole, f |-> frac]
PosOver == [o |-> 1, w |-> 0, f |-> 0]
NegOver == [o |-> -1, w |-> 0, f |-> 0]

\* `n as f64` for an i32 or u32 n: exact.
F64FromInt(n) == F64(n, 0)

\* a + b on f64 values (exact on the fixed-point grid).
F64Add(a, b) ==
  IF a.o # 0 THEN a
  ELSE IF b.o # 0 THEN b
  ELSE LET carry == IF a.f + b.f >= Scale THEN 1 ELSE 0
           frac == a.f + b.f - carry * Scale
       IN IF b.w >= 0 /\ a.w > (I32Max - b.w) - carry THEN PosOver
          ELSE IF b.w < 0 /\ a.w < I32Min - b.w THEN NegOver
          ELSE F64((a.w + b.w) + carry, frac)

\* -a on f64 values.
F64Neg(a) ==
  IF a.o # 0 THEN [a EXCEPT !.o = -a.o]
  ELSE IF a.f = 0
       THEN (IF a.w = I32Min THEN PosOver ELSE F64(-a.w, 0))
       ELSE F64((-1 - a.w), Scale - a.f)

\* a - b on f64 values.
F64Sub(a, b) == F64Add(a, F64Neg(b))

\* AsI32 with a slip: rounds towards minus infinity instead of towards zero.
AsI32Floor(a) ==
  IF a.o = 1 THEN I32Max
  ELSE IF a.o = -1 THEN I32Min
  ELSE a.w

\* `a as i32` for an f64 a: truncates towards zero and saturates at the ends
\* of the i32 range.
AsI32(a) ==
  IF a.o = 1 THEN I32Max
  ELSE IF a.o = -1 THEN I32Min
  ELSE IF a.w >= 0 \/ a.f = 0 THEN a.w ELSE a.w + 1

(***************************************************************************)
(* Events the host dispatches.                                             *)
(***************************************************************************)
\* .on_menu_event: event.id
MenuIds == {"quit", "about", ""}

\* Whole parts of the tray rectangle's coordinates.
TrayXs == {I32Min} \cup {100 * k : k \in 1..MaxK}
TrayYs == {I32Max} \cup {50 * k : k \in 1..MaxK}
TrayHeights == {20}
TrayWidths == {24}
Fracs == {0, Scale - 1}

\* tauri::Position: Physical(PhysicalPosition<i32>) | Logical(LogicalPosition<f64>)
Positions ==
  [tag : {"Physical"}, x : TrayXs, y : TrayYs]
  \cup [tag : {"Logical"},
        x : {F64(w, f) : w \in TrayXs, f \in Fracs},
        y : {F64(w, f) : w \in TrayYs, f \in Fracs}]

\* tauri::Size: Physical(PhysicalSize<u32>) | Logical(LogicalSize<f64>)
Sizes ==
  [tag : {"Physical"}, width : TrayWidths, height : TrayHeights]
  \cup [tag : {"Logical"},
        width : {F64(w, 0) : w \in TrayWidths},
        height : {F64(w, f) : w \in TrayHeights, f \in Fracs}]

\* The number a tagged component carries, whatever its unit.
Num(tag, v) == IF tag = "Physical" THEN F64(v, 0) ELSE v

\* The tray rectangles tried: an icon at (100, 50), 24 wide and 20 high,
\* with its x, or its y and height, replaced by the other values; in any
\* mix of units when all its numbers are whole, and in logical units when
\* one has a fractional part.
Rects ==
  {r \in [position : Positions, size : Sizes] :
     LET x == Num(r.position.tag, r.position.x)
         y == Num(r.position.tag, r.position.y)
         h == Num(r.size.tag, r.size.height)
         xv == IF x = F64(100, 0) THEN 0 ELSE 1
         yv == IF y = F64(50, 0) /\ h = F64(20, 0) THEN 0 ELSE 1
     IN /\ xv + yv <= 1
        /\ (x.f # 0 \/ y.f # 0 \/ h.f # 0)
             => (r.position.tag = "Logical" /\ r.size.tag = "Logical")}

\* The rectangle carried by the events the handler does not act upon.
IconRect ==
  [position |-> [tag |-> "Physical", x |-> 100, y |-> 50],
   size |-> [tag |-> "Physical", width |-> 24, height |-> 20]]

MouseButtons == {"Left", "Right", "Middle"}
MouseButtonStates == {"Up", "Down"}

\* tauri::tray::TrayIconEvent
TrayIconEvents ==
  [kind : {"Click"}, button : {"Left"}, button_state : {"Up"}, rect : Rects]
  \cup [kind : {"Click"}, button : MouseButtons, button_state : MouseButtonStates,
        rect : {IconRect}]
  \cup [kind : {"DoubleClick"}, button : MouseButtons, button_state : {"Up"},
        rect : {IconRect}]
  \cup [kind : {"Enter", "Move", "Leave"}, button : {"Left"}, button_state : {"Up"},
        rect : {IconRect}]

\* tauri::WindowEvent
WindowEvents ==
  [kind : {"Focused"}, focused : BOOLEAN]
  \cup [kind : {"CloseRequested", "Moved", "Resized", "ThemeChanged"},
        focused : {FALSE}]

(***************************************************************************)
(* Commands the callbacks issue to the host.                               *)
(***************************************************************************)
Cmd(op, arg) == [op |-> op, arg |-> arg]
Hide == Cmd("hide", <<>>)
Show == Cmd("show", <<>>)
SetFocus == Cmd("set_focus", <<>>)
SetPosition(x, y) == Cmd("set_position", <<x, y>>)
Exit(code) == Cmd("exit", <<code>>)

(***************************************************************************)
(* The callbacks, as functions from what they read to what they issue.     *)
(***************************************************************************)
\* UnwrapOr with a slip: a failed read counts as true.
UnwrapOrTrue(result, default) == IF result[1] = "Ok" THEN result[2] ELSE TRUE

\* Result<bool>::unwrap_or(default); a Result is <<"Ok", v>> or <<"Err">>.
UnwrapOr(result, default) == IF result[1] = "Ok" THEN result[2] ELSE default

window_width == 400
vertical_gap == 5

\* tray_x with a slip: a logical x is converted to physical pixels (at a
\* scale factor of 2) while a physical one is taken as it is.
tray_x_ToPhysical(rect) ==
  IF rect.position.tag = "Physical" THEN F64FromInt(rect.position.x)
  ELSE F64Add(rect.position.x, rect.position.x)

\* match rect.position { Physical(pos) => pos.x as f64, Logical(pos) => pos.x }
tray_x(rect) ==
  IF rect.position.tag = "Physical" THEN F64FromInt(rect.position.x)
  ELSE rect.position.x

\* match rect.position { Physical(pos) => pos.y as f64, Logical(pos) => pos.y }
tray_y(rect) ==
  IF rect.position.tag = "Physical" THEN F64FromInt(rect.position.y)
  ELSE rect.position.y

\* match rect.size { Physical(size) => size.height as f64, Logical(size) => size.height }
tray_height(rect) ==
  IF rect.size.tag = "Physical" THEN F64FromInt(rect.size.height)
  ELSE rect.size.height

\* let x = tray_x - (window_width / 2.0);  400.0 / 2.0 is exactly 200.0
TargetX(rect) == F64Sub(tray_x(rect), F64FromInt(window_width \div 2))

\* TargetY with a slip: the gap below the icon is left out.
TargetYNoGap(rect) == F64Add(tray_y(rect), tray_height(rect))

\* let y = tray_y + tray_height + 5.0;
TargetY(rect) ==
  F64Add(F64Add(tray_y(rect), tray_height(rect)), F64FromInt(vertical_gap))

\* PhysicalPosition::new(x as i32, y as i32)
TargetPosition(rect) == <<AsI32(TargetX(rect)), AsI32(TargetY(rect))>>

\* IsLeftClickUp with a slip: the button state is not matched.
IsLeftClickAnyState(event) == event.kind = "Click" /\ event.button = "Left"

\* if let TrayIconEvent::Click { button: Left, button_state: Up, rect, .. } = event
IsLeftClickUp(event) ==
  event.kind = "Click" /\ event.button = "Left" /\ event.button_state = "Up"

\* ShowCommands with a slip: the window is shown before it is moved.
ShowCommandsShowFirst(event) ==
  LET p == TargetPosition(event.rect)
  IN <<Show, SetPosition(p[1], p[2]), SetFocus>>

\* The else branch of the visibility test: position, show, focus.
ShowCommands(event) ==
  LET p == TargetPosition(event.rect)
  IN <<SetPosition(p[1], p[2]), Show, SetFocus>>

\* on_tray_icon_event with a slip: the visibility test is negated.
on_tray_icon_event_Negated(event, found, query) ==
  IF ~IsLeftClickUp(event) \/ ~found THEN [queried |-> FALSE, cmds |-> <<>>]
  ELSE IF ~UnwrapOr(query, FALSE) THEN [queried |-> TRUE, cmds |-> <<Hide>>]
  ELSE [queried |-> TRUE, cmds |-> ShowCommands(event)]

\* on_tray_icon_event with a slip: the window is used without testing that
\* the lookup found it.
on_tray_icon_event_NoLookup(event, found, query) ==
  IF ~IsLeftClickUp(event) THEN [queried |-> FALSE, cmds |-> <<>>]
  ELSE IF UnwrapOr(query, FALSE) THEN [queried |-> TRUE, cmds |-> <<Hide>>]
  ELSE [queried |-> TRUE, cmds |-> ShowCommands(event)]

\* on_tray_icon_event with a slip: the window is moved under the icon
\* before its visibility is looked at.
on_tray_icon_event_MoveFirst(event, found, query) ==
  IF ~IsLeftClickUp(event) \/ ~found THEN [queried |-> FALSE, cmds |-> <<>>]
  ELSE LET p == TargetPosition(event.rect)
       IN IF UnwrapOr(query, FALSE)
            THEN [queried |-> TRUE, cmds |-> <<SetPosition(p[1], p[2]), Hide>>]
            ELSE [queried |-> TRUE,
                  cmds |-> <<SetPosition(p[1], p[2]), Show, SetFocus>>]

\* .on_tray_icon_event(|tray, event| ...): `found` is whether
\* app.get_webview_window("main") is Some, `query` the Result that
\* window.is_visible() gives when it is called.  Yields whether the
\* visibility was queried and the commands issued, in order.
on_tray_icon_event(event, found, query) ==
  IF ~IsLeftClickUp(event) THEN [queried |-> FALSE, cmds |-> <<>>]
  ELSE IF ~found THEN [queried |-> FALSE, cmds |-> <<>>]
  ELSE IF UnwrapOr(query, FALSE) THEN [queried |-> TRUE, cmds |-> <<Hide>>]
  ELSE [queried |-> TRUE, cmds |-> ShowCommands(event)]

ExitCode == 0

\* on_menu_event with a slip: the id is not compared.
on_menu_event_AnyId(id) == <<Exit(ExitCode)>>

\* .on_menu_event(|app, event| if event.id.as_ref() == "quit" { app.exit(0) })
on_menu_event(id) == IF id = "quit" THEN <<Exit(ExitCode)>> ELSE <<>>

\* on_window_event with a slip: the window is hidden when it gains focus.
on_window_event_FocusGained(event) ==
  IF event.kind = "Focused" /\ event.focused = TRUE
    THEN [cmds |-> <<Hide>>, prevent_close |-> FALSE]
  ELSE IF event.kind = "CloseRequested"
    THEN [cmds |-> <<Hide>>, prevent_close |-> TRUE]
  ELSE [cmds |-> <<>>, prevent_close |-> FALSE]

\* on_window_event with a slip: the close request is hidden but not prevented.
on_window_event_NoPrevent(event) ==
  IF event.kind = "Focused" /\ event.focused = FALSE
    THEN [cmds |-> <<Hide>>, prevent_close |-> FALSE]
  ELSE IF event.kind = "CloseRequested"
    THEN [cmds |-> <<Hide>>, prevent_close |-> FALSE]
  ELSE [cmds |-> <<>>, prevent_close |-> FALSE]

\* on_window_event with a slip: the close request falls to the default arm.
on_window_event_NoCloseArm(event) ==
  IF event.kind = "Focused" /\ event.focused = FALSE
    THEN [cmds |-> <<Hide>>, prevent_close |-> FALSE]
  ELSE [cmds |-> <<>>, prevent_close |-> FALSE]

\* .on_window_event(|window, event| match event ...): the commands issued
\* and whether api.prevent_close() was called.
on_window_event(event) ==
  IF event.kind = "Focused" /\ event.focused = FALSE
    THEN [cmds |-> <<Hide>>, prevent_close |-> FALSE]
  ELSE IF event.kind = "CloseRequested"
    THEN [cmds |-> <<Hide>>, prevent_close |-> TRUE]
  ELSE [cmds |-> <<>>, prevent_close |-> FALSE]

(***************************************************************************)
(* The host: the window "main" and the process.                            *)
(***************************************************************************)
VARIABLES
  running,      \* the process has not exited
  exit_code,    \* the code passed to app.exit, -1 while running
  exists,       \* app.get_webview_window("main") is Some
  window,       \* the host's window: [visible, focused, position]
  event,        \* the event of the last callback run: [src, ev]
  queried,      \* the result of window.is_visible() in that run, <<"None">> if not called
  issued,       \* the commands issued in that run, in order, each with the host's answer
  prevented     \* api.prevent_close() was called in that run

vars == <<running, exit_code, exists, window, event, queried, issued, prevented>>

\* One command with the host's answer: ok = TRUE when the host applied it.
Issued(cmd, ok) == [op |-> cmd.op, arg |-> cmd.arg, ok |-> ok]

\* Answered with a slip: the first failed command ends the run, as `?`
\* in place of `let _ =` would.
AnsweredUntilFailure(cs, oks) ==
  LET failed == {i \in 1..Len(cs) : ~oks[i]}
      last == IF failed = {} THEN Len(cs)
              ELSE CHOOSE i \in failed : \A j \in failed : i <= j
  IN [i \in 1..last |-> Issued(cs[i], oks[i])]

\* The commands cs with the answers oks, position by position.
Answered(cs, oks) == [i \in 1..Len(cs) |-> Issued(cs[i], oks[i])]

\* What the host does to the window for one issued command.
Apply(w, c) ==
  IF ~c.ok THEN w
  ELSE IF c.op = "hide" THEN [w EXCEPT !.visible = FALSE, !.focused = FALSE]
  ELSE IF c.op = "show" THEN [w EXCEPT !.visible = TRUE]
  ELSE IF c.op = "set_focus" THEN [w EXCEPT !.focused = TRUE]
  ELSE IF c.op = "set_position" THEN [w EXCEPT !.position = c.arg]
  ELSE w

\* The window after the issued commands cs, applied in order.
RECURSIVE ApplyAll(_, _)
ApplyAll(w, cs) ==
  IF cs = <<>> THEN w ELSE ApplyAll(Apply(w, Head(cs)), Tail(cs))

Init ==
  /\ running = TRUE
  /\ exit_code = -1
  /\ exists \in BOOLEAN
  /\ window = [visible |-> FALSE, focused |-> FALSE, position |-> <<0, 0>>]
  /\ event = [src |-> "none", ev |-> <<>>]
  /\ queried = <<"None">>
  /\ issued = <<>>
  /\ prevented = FALSE

\* The host dispatches a menu event.
MenuEvent ==
  /\ running
  /\ \E id \in MenuIds :
       LET cs == on_menu_event(id)
       IN /\ event' = [src |-> "menu", ev |-> id]
          /\ issued' = Answered(cs, [i \in 1..Len(cs) |-> TRUE])
          /\ running' = (\A i \in 1..Len(cs) : cs[i].op # "exit")
          /\ exit_code' = IF cs # <<>> /\ cs[1].op = "exit" THEN cs[1].arg[1]
                          ELSE exit_code
          /\ queried' = <<"None">>
          /\ prevented' = FALSE
          /\ UNCHANGED <<exists, window>>

\* The callback runs on the tray icon event ev.
TrayDispatch(ev) ==
  \E query \in {<<"Ok", window.visible>>, <<"Err">>} :
    LET r == on_tray_icon_event(ev, exists, query)
    IN \E oks \in [1..Len(r.cmds) -> BOOLEAN] :
         /\ event' = [src |-> "tray", ev |-> ev]
         /\ queried' = IF r.queried THEN query ELSE <<"None">>
         /\ issued' = Answered(r.cmds, oks)
         /\ window' = ApplyAll(window, issued')
         /\ prevented' = FALSE
         /\ UNCHANGED <<running, exit_code, exists>>

\* The host dispatches a tray icon event.
TrayIconEvent ==
  /\ running
  /\ \E ev \in TrayIconEvents : TrayDispatch(ev)

\* The host dispatches an event of the window "main".  A Focused event
\* reports the focus the host has already changed; a close request the
\* callback does not prevent closes the window, the only one, and with it
\* the application.
WindowEvent ==
  /\ running
  /\ exists
  /\ \E ev \in WindowEvents :
       LET r == on_window_event(ev)
           w == IF ev.kind = "Focused" THEN [window EXCEPT !.focused = ev.focused]
                ELSE window
           closes == ev.kind = "CloseRequested" /\ ~r.prevent_close
       IN \E oks \in [1..Len(r.cmds) -> BOOLEAN] :
            /\ event' = [src |-> "window", ev |-> ev]
            /\ queried' = <<"None">>
            /\ issued' = Answered(r.cmds, oks)
            /\ window' = ApplyAll(w, issued')
            /\ prevented' = r.prevent_close
            /\ exists' = (exists /\ ~closes)
            /\ running' = ~closes
            /\ exit_code' = IF closes THEN 0 ELSE exit_code

Next == MenuEvent \/ TrayIconEvent \/ WindowEvent

Spec == Init /\ [][Next]_vars

(***************************************************************************)
(* Properties.                                                             *)
(***************************************************************************)
\* The operations of the issued commands, in order.
Ops(cs) == [i \in 1..Len(cs) |-> cs[i].op]

\* How many of the issued commands are op.
Count(cs, op) == Cardinality({i \in 1..Len(cs) : cs[i].op = op})

\* The host applied every issued command.
AllOk(cs) == \A i \in 1..Len(cs) : cs[i].ok

\* The last callback run handled a left-button, button-up tray click.
TrayClick == event.src = "tray" /\ IsLeftClickUp(event.ev)

\* ... and the window was found and reported not visible / visible.
ClickOnHidden == TrayClick /\ queried = <<"Ok", FALSE>>
ClickOnVisible == TrayClick /\ queried = <<"Ok", TRUE>>

\* The numbers of the click's rectangle, as the reals they denote.
RectX == Num(event.ev.rect.position.tag, event.ev.rect.position.x)
RectY == Num(event.ev.rect.position.tag, event.ev.rect.position.y)
RectHeight == Num(event.ev.rect.size.tag, event.ev.rect.size.height)
RectWidth == Num(event.ev.rect.size.tag, event.ev.rect.size.width)

\* The whole part of RectY + RectHeight + 5 and whether a fraction is left.
SumCarry == IF RectY.f + RectHeight.f >= Scale THEN 1 ELSE 0
SumFrac == (RectY.f + RectHeight.f) - SumCarry * Scale
SumTooBig == RectY.w > ((I32Max - RectHeight.w) - SumCarry) - 5
SumWhole == ((RectY.w + RectHeight.w) + SumCarry) + 5

\* n is RectX - 200 with its fractional part dropped (rounded towards zero),
\* which no i32 is when RectX - 200 <= I32Min - 1.
IsTruncX(n) ==
  IF RectX.w < I32Min + 200
    THEN RectX.w = I32Min + 199 /\ RectX.f # 0 /\ n = I32Min
    ELSE n = (IF RectX.w - 200 >= 0 \/ RectX.f = 0 THEN RectX.w - 200
              ELSE RectX.w - 199)

\* n is RectY + RectHeight + 5 with its fractional part dropped, which no
\* i32 is when the sum is I32Max + 1 or more.
IsTruncY(n) ==
  IF SumTooBig THEN FALSE
  ELSE n = (IF SumWhole >= 0 \/ SumFrac = 0 THEN SumWhole ELSE SumWhole + 1)

\* C1 as stated: after a left-button, button-up tray click on a window
\* reported not visible, exactly one set_position was issued and it carries
\* (tray_x - 200, tray_y + tray_height + 5) truncated to integers, for every
\* tray rectangle.
C1_ExactTruncated ==
  ClickOnHidden =>
    /\ Count(issued, "set_position") = 1
    /\ issued[1].op = "set_position"
    /\ IsTruncX(issued[1].arg[1])
    /\ IsTruncY(issued[1].arg[2])

\* C1 amended: ... it carries (tray_x - 200, tray_y + tray_height + 5), each
\* truncated towards zero and then clamped to the i32 range: I32Min when
\* tray_x - 200 is below it, I32Max when tray_y + tray_height + 5 is above it.
C1_TruncatedAndClamped ==
  ClickOnHidden =>
    /\ Count(issued, "set_position") = 1
    /\ issued[1].op = "set_position"
    /\ IF RectX.w < I32Min + 200 THEN issued[1].arg[1] = I32Min
       ELSE IsTruncX(issued[1].arg[1])
    /\ IF SumTooBig THEN issued[1].arg[2] = I32Max
       ELSE IsTruncY(issued[1].arg[2])

\* C1 witness: a click on a hidden window whose tray_x - 200 has a negative
\* fractional value was positioned, shown and focused.
C1_Witness ==
  /\ ClickOnHidden
  /\ RectX = F64(100, Scale - 1)
  /\ issued[1].arg = <<-99, 75>>
  /\ AllOk(issued)
  /\ window.position = <<-99, 75>>

\* C2: a left-button, button-up tray click on a window reported not visible
\* issues exactly set_position, show, set_focus, in this order, and no hide.
C2_PositionShowFocus ==
  ClickOnHidden =>
    /\ Ops(issued) = <<"set_position", "show", "set_focus">>
    /\ Count(issued, "hide") = 0

\* C2 witness: such a click, with every command applied.
C2_Witness ==
  /\ ClickOnHidden
  /\ Len(issued) = 3
  /\ AllOk(issued)
  /\ window.visible
  /\ window.focused

\* C3: a left-button, button-up tray click on a window reported visible
\* issues exactly one hide and nothing else, and leaves the window's
\* position unchanged.
C3_HideOnly ==
  [][(ClickOnVisible)' =>
       /\ Ops(issued') = <<"hide">>
       /\ window'.position = window.position]_vars

\* C3 witness: a click hid a visible window that had been positioned.
C3_Witness ==
  /\ ClickOnVisible
  /\ AllOk(issued)
  /\ ~window.visible
  /\ window.position = <<-100, 75>>

\* The last callback run handled this window event.
WindowEventIs(kind) == event.src = "window" /\ event.ev.kind = kind
FocusLost == WindowEventIs("Focused") /\ event.ev.focused = FALSE

\* C4: a Focused(false) window event issues exactly one hide and nothing
\* else, without querying the visibility, whatever the window's state.
C4_FocusLostHides ==
  FocusLost => (Ops(issued) = <<"hide">> /\ queried = <<"None">>)

\* C4 witness: Focused(false) arrived for a visible window and the hide was
\* issued but not applied.
C4_Witness ==
  /\ FocusLost
  /\ Len(issued) = 1
  /\ ~issued[1].ok
  /\ window.visible

\* C5: a CloseRequested window event issues exactly one hide, calls
\* prevent_close in the same run (also when the hide fails), issues no
\* exit, and leaves the process running with the window in place, so that
\* a tray event can still be handled.
C5_CloseHides ==
  WindowEventIs("CloseRequested") =>
    /\ Ops(issued) = <<"hide">>
    /\ prevented
    /\ running
    /\ exit_code = -1
    /\ exists
    /\ ENABLED TrayIconEvent

\* C5 witness: a close request whose hide failed, the window still visible.
C5_Witness ==
  /\ WindowEventIs("CloseRequested")
  /\ ~issued[1].ok
  /\ prevented
  /\ window.visible
  /\ running

\* C6: a menu event with id "quit" issues exit with code 0 and no window
\* command; a menu event with any other id issues nothing and leaves the
\* window and the running process unchanged.
C6_QuitOnly ==
  [][(event'.src = "menu") =>
       IF event'.ev = "quit"
         THEN /\ issued' = <<Issued(Exit(0), TRUE)>>
              /\ ~running'
              /\ exit_code' = 0
              /\ window' = window
         ELSE /\ issued' = <<>>
              /\ UNCHANGED <<running, exit_code, exists, window>>]_vars

\* C6 witness: quit was chosen while the window was visible.
C6_Witness ==
  /\ event.src = "menu"
  /\ event.ev = "quit"
  /\ ~running
  /\ exit_code = 0
  /\ window.visible

\* The click's rectangle is at (100, 50) and 20 high, in whatever units.
IconAt100x50 ==
  RectX = F64(100, 0) /\ RectY = F64(50, 0) /\ RectHeight = F64(20, 0)

\* The last run was a left-click-up on the rectangle at (100, 50), height
\* 20, that found the window hidden, and the host applied every command.
FirstClick ==
  /\ ClickOnHidden
  /\ IconAt100x50
  /\ AllOk(issued)

\* C7: with a host that applies every command, from a hidden window a
\* left-click-up with rect position (100, 50) and height 20 leaves the
\* window visible, focused and at (-100, 75); a second left-click-up right
\* after it leaves the window hidden.
C7_EndToEnd ==
  [][/\ (~window.visible /\ FirstClick') =>
          window' = [visible |-> TRUE, focused |-> TRUE, position |-> <<-100, 75>>]
     /\ (FirstClick /\ TrayClick' /\ queried'[1] = "Ok" /\ AllOk(issued')) =>
          (~window'.visible /\ Ops(issued') = <<"hide">>)]_vars

\* C7 witness: the second click has hidden the window the first one had
\* shown at (-100, 75).
C7_Witness ==
  /\ ClickOnVisible
  /\ IconAt100x50
  /\ issued = <<Issued(Hide, TRUE)>>
  /\ window = [visible |-> FALSE, focused |-> FALSE, position |-> <<-100, 75>>]

\* C8 as stated: when the click shows the window, its horizontal midpoint
\* (requested x + 200) is the midpoint of the tray rectangle
\* (tray_x + tray_width / 2); stated for the whole-numbered rectangles
\* away from the ends of the i32 range, with both sides doubled.
C8_CentredUnderIcon ==
  (ClickOnHidden /\ RectX.f = 0 /\ RectX.w > -1000 /\ RectX.w < 1000) =>
    2 * (issued[1].arg[1] + 200) = 2 * RectX.w + RectWidth.w

\* C9: while no quit has been handled the process runs and the window
\* "main" is neither created nor destroyed by any handler: a step changes
\* at most its visibility, focus and position, also a close request.
C9_WindowKept ==
  [][/\ exists' = exists
     /\ DOMAIN window' = DOMAIN window
     /\ window'.visible \in BOOLEAN
     /\ ~(event'.src = "menu" /\ event'.ev = "quit") => running']_vars

\* C9 witness: a close request was handled and the window is still there,
\* hidden.
C9_Witness ==
  /\ WindowEventIs("CloseRequested")
  /\ issued = <<Issued(Hide, TRUE)>>
  /\ exists
  /\ running
  /\ ~window.visible
  /\ window.position = <<-100, 75>>

\* C10: a tray event that is not a left-button, button-up click issues no
\* command, does not query the visibility and leaves the window as it was.
C10_OtherTrayEventsIgnored ==
  [][(event'.src = "tray" /\ ~(event'.ev.kind = "Click" /\ event'.ev.button = "Left"
                               /\ event'.ev.button_state = "Up")) =>
       /\ issued' = <<>>
       /\ queried' = <<"None">>
       /\ UNCHANGED <<window, exists, running, exit_code>>]_vars

\* C10 witness: a left-button, button-down click reached the handler while
\* the window was visible and focused, and nothing was issued.
C10_Witness ==
  /\ event.src = "tray"
  /\ event.ev.kind = "Click"
  /\ event.ev.button = "Left"
  /\ event.ev.button_state = "Down"
  /\ issued = <<>>
  /\ window.visible
  /\ window.focused

\* The last callback run handled a window event that is neither
\* Focused(false) nor CloseRequested.
OtherWindowEvent ==
  /\ event.src = "window"
  /\ ~(event.ev.kind = "Focused" /\ event.ev.focused = FALSE)
  /\ event.ev.kind # "CloseRequested"

\* C11: a window event other than Focused(false) and CloseRequested issues
\* no command and does not prevent anything; in particular Focused(true)
\* leaves a visible window visible.
C11_OtherWindowEventsIgnored ==
  [][(OtherWindowEvent)' =>
       /\ issued' = <<>>
       /\ queried' = <<"None">>
       /\ ~prevented'
       /\ window'.visible = window.visible
       /\ window'.position = window.position
       /\ UNCHANGED <<running, exit_code, exists>>]_vars

\* C11 witness: Focused(true) arrived for the window a click had shown and
\* focused, and the window is still visible.
C11_Witness ==
  /\ WindowEventIs("Focused")
  /\ event.ev.focused = TRUE
  /\ issued = <<>>
  /\ window = [visible |-> TRUE, focused |-> TRUE, position |-> <<-100, 75>>]

\* C12: a left-click-up tray event handled while no window "main" is found
\* issues no command and no visibility query, creates no window, and the
\* process keeps running.
C12_NoWindowNoCommand ==
  (TrayClick /\ ~exists) =>
    /\ issued = <<>>
    /\ queried = <<"None">>
    /\ running
    /\ exit_code = -1
    /\ ENABLED TrayIconEvent

\* C12 witness: such a click was handled with no window.
C12_Witness ==
  /\ TrayClick
  /\ ~exists
  /\ issued = <<>>
  /\ running

\* C13: when is_visible fails in a left-click-up tray event, the handler
\* issues set_position, show, set_focus in that order and no hide, whatever
\* the window's real visibility.
C13_QueryFailureShows ==
  (TrayClick /\ queried = <<"Err">>) =>
    /\ Ops(issued) = <<"set_position", "show", "set_focus">>
    /\ Count(issued, "hide") = 0

\* C13 witness: the query failed on a window that was visible (it still is,
\* although the show was not applied).
C13_Witness ==
  /\ TrayClick
  /\ queried = <<"Err">>
  /\ Len(issued) = 3
  /\ ~issued[2].ok
  /\ window.visible

\* The host failed one of the commands of the last callback run.
SomeFailed == \E i \in 1..Len(issued) : ~issued[i].ok

\* C14: a failed hide, set_position, show or set_focus is ignored: no
\* command is issued twice in the run, the commands after the failed one
\* are still issued (set_position, show, set_focus all three; hide alone),
\* the process keeps running, and the next left-click-up decides between
\* hide and show from the visibility the host reports then.
C14_FailuresIgnored ==
  [][/\ (SomeFailed)' =>
          /\ \A op \in {"hide", "set_position", "show", "set_focus"} :
               Count(issued', op) <= 1
          /\ Ops(issued') \in {<<"hide">>, <<"set_position", "show", "set_focus">>}
          /\ running'
          /\ exit_code' = -1
     /\ (SomeFailed /\ (TrayClick)' /\ queried'[1] = "Ok") =>
          /\ queried'[2] = window.visible
          /\ Ops(issued') = IF window.visible THEN <<"hide">>
                            ELSE <<"set_position", "show", "set_focus">>]_vars

\* C14 witness: a click has hidden a window that was visible at the
\* initial position: an earlier click's set_position had failed and its
\* show had still been issued and applied.
C14_Witness ==
  /\ ClickOnVisible
  /\ issued = <<Issued(Hide, TRUE)>>
  /\ ~window.visible
  /\ window.position = <<0, 0>>

\* A left-click-up and a pointer-leave tray event on the icon at (100, 50).
IconClick ==
  [kind |-> "Click", button |-> "Left", button_state |-> "Up", rect |-> IconRect]
IconLeave ==
  [kind |-> "Leave", button |-> "Left", button_state |-> "Up", rect |-> IconRect]

\* The host dispatches the menu event "quit".
QuitEvent == MenuEvent /\ event' = [src |-> "menu", ev |-> "quit"]

\* C15: process exit through the "quit" menu event is the only terminal
\* state: while the process runs, with the window hidden or visible, a
\* tray event, a menu event, "quit" in particular, and (for the window
\* "main") a window event can be handled, and so can a left-click-up
\* after every menu or window event; the process has stopped only after
\* "quit", with code 0, and no other run issues exit.
C15_OnlyQuitTerminates ==
  /\ running =>
       /\ ENABLED (running /\ TrayDispatch(IconLeave))
       /\ ENABLED MenuEvent
       /\ ENABLED QuitEvent
       /\ exists => ENABLED WindowEvent
       /\ event.src # "tray" => ENABLED (running /\ TrayDispatch(IconClick))
  /\ ~running =>
       /\ event = [src |-> "menu", ev |-> "quit"]
       /\ exit_code = 0
       /\ ~ENABLED Next
  /\ Count(issued, "exit") > 0 => event = [src |-> "menu", ev |-> "quit"]

\* C15 witness: quit was accepted while the window was hidden, after a
\* close request had been turned into a hide.
C15_Witness ==
  /\ ~running
  /\ event = [src |-> "menu", ev |-> "quit"]
  /\ exists
  /\ ~window.visible
  /\ window.position = <<-100, 75>>

\* The position and the size carrying the whole numbers x, y / width,
\* height under the given unit tag.
Tagged(tag, n) == IF tag = "Physical" THEN n ELSE F64(n, 0)
PositionAs(tag, x, y) == [tag |-> tag, x |-> Tagged(tag, x), y |-> Tagged(tag, y)]
SizeAs(tag, w, h) == [tag |-> tag, width |-> Tagged(tag, w), height |-> Tagged(tag, h)]

\* The click's rectangle carries whole numbers only.
WholeRect == RectX.f = 0 /\ RectY.f = 0 /\ RectHeight.f = 0 /\ RectWidth.f = 0

\* The last run was a left-click-up that took the show branch.
ClickShowed == TrayClick /\ Len(issued) = 3

\* C16: the position requested does not depend on the unit tags: the same
\* numbers under any of the four combinations of a physical or logical
\* position with a physical or logical size give the set_position
\* arguments that were issued, and these are a pair of integers (a
\* physical position).
C16_UnitTagsIgnored ==
  (ClickShowed /\ WholeRect) =>
    /\ \A ptag \in {"Physical", "Logical"}, stag \in {"Physical", "Logical"} :
         TargetPosition([position |-> PositionAs(ptag, RectX.w, RectY.w),
                         size |-> SizeAs(stag, RectWidth.w, RectHeight.w)])
           = issued[1].arg
    /\ issued[1].op = "set_position"
    /\ issued[1].arg[1] \in Int
    /\ issued[1].arg[2] \in Int

\* C16 witness: a click whose position is logical and whose size is
\* physical was handled like the all-physical one.
C16_Witness ==
  /\ ClickShowed
  /\ event.ev.rect.position = PositionAs("Logical", 100, 50)
  /\ event.ev.rect.size = SizeAs("Physical", 24, 20)
  /\ issued[1].arg = <<-100, 75>>

\* The last run handled Focused(false) and the host applied its hide.
HiddenByFocusLoss == FocusLost /\ issued = <<Issued(Hide, TRUE)>>

\* C17: with a host that applies every command, Focused(false) hides a
\* visible window, and a left-click-up right after it, deciding from the
\* visibility reported at that moment, positions the window from the
\* click's rect, shows and focuses it: the window ends visible, not hidden.
C17_ClickAfterFocusLossShows ==
  [][/\ (window.visible /\ (HiddenByFocusLoss)') => ~window'.visible
     /\ (HiddenByFocusLoss /\ (TrayClick)' /\ queried'[1] = "Ok" /\ AllOk(issued')) =>
          /\ queried' = <<"Ok", FALSE>>
          /\ Ops(issued') = <<"set_position", "show", "set_focus">>
          /\ (C1_TruncatedAndClamped)'
          /\ window' = [visible |-> TRUE, focused |-> TRUE,
                        position |-> issued'[1].arg]]_vars

\* C17 witness: Focused(false) has hidden the window a click had placed at
\* (-100, 75), and the next left-click-up on the icon can show and focus
\* it again.
C17_Witness ==
  /\ HiddenByFocusLoss
  /\ window = [visible |-> FALSE, focused |-> FALSE, position |-> <<-100, 75>>]
  /\ ENABLED (/\ running
              /\ TrayDispatch(IconClick)
              /\ AllOk(issued')
              /\ window'.visible
              /\ window'.focused)

\* The last run handled a tray event that is a click with the left button
\* in the button-up phase.
LeftUpRun ==
  /\ event.src = "tray"
  /\ event.ev.kind = "Click"
  /\ event.ev.button = "Left"
  /\ event.ev.button_state = "Up"

\* The first command issued is the set_position computed from the rect
\* of the event of the last run.
PositionedFromRect ==
  /\ Len(issued) >= 1
  /\ issued[1].op = "set_position"
  /\ IF RectX.w < I32Min + 200 THEN issued[1].arg[1] = I32Min
     ELSE IsTruncX(issued[1].arg[1])
  /\ IF SumTooBig THEN issued[1].arg[2] = I32Max
     ELSE IsTruncY(issued[1].arg[2])

\* C18: the window, hidden at the start, becomes visible only in a run
\* that handles a left-click-up tray event and issues the set_position
\* computed from that event's rect before the show; a run for any other
\* event issues no show, set_position or set_focus.
C18_ShownOnlyByClick ==
  [][/\ (~window.visible /\ window'.visible) =>
          /\ (LeftUpRun)'
          /\ (PositionedFromRect)'
          /\ \E j \in 2..Len(issued') : issued'[j].op = "show" /\ issued'[j].ok
     /\ ~(LeftUpRun)' =>
          \A op \in {"show", "set_position", "set_focus"} : Count(issued', op) = 0]_vars

\* C18 witness: a click found the window hidden and made it visible; its
\* set_position, issued first, was not applied, so the window is shown at
\* the initial position.
C18_Witness ==
  /\ LeftUpRun
  /\ queried = <<"Ok", FALSE>>
  /\ PositionedFromRect
  /\ ~issued[1].ok
  /\ issued[2] = Issued(Show, TRUE)
  /\ window.visible
  /\ window.position = <<0, 0>>

====
